---- MODULE Spec2Model ----
(***************************************************************************)
(* A model of package database/sql (src/src/pkg/database/sql/sql.go): one  *)
(* DB handle, its pool of idle driver connections, prepared statements,    *)
(* transactions and row cursors, used by several goroutines.               *)
(*                                                                         *)
(* A goroutine that is inside a call of the package has a frame; th is the *)
(* bag of these frames (goroutines have no identity).  The pc of a frame   *)
(* is the place in the code the goroutine has reached: a pc that ends in   *)
(* the name of a driver method ("prepare_Prepare", "Commit_txi") means     *)
(* that this call of the driver is in progress, and the step that leaves   *)
(* it is the return of the call, with an outcome chosen among those a      *)
(* driver may produce.  Code that runs under a mutex without calling the   *)
(* driver is one step, taken when the mutex is free.                       *)
(***************************************************************************)
EXTENDS Integers, Sequences, FiniteSets, Bags, TLC

\* Bounds of the model.
NThreads == 2
MaxConns == 3
MaxTx == 2
MaxStmt == 3
MaxRows == 2
MaxCalls == 4
MaxFaults == 1
MaxArgs == 1

\* Constants of the program.
defaultMaxIdleConns == 2
maxAttempts == 10

Conns == 1..MaxConns
TxIds == 1..MaxTx
StmtIds == 1..MaxStmt
RowsIds == 1..MaxRows

VARIABLES
    freeConn,   \* DB.freeConn: the idle list (0 stands for a nil driver.Conn)
    closed,     \* DB.closed
    dbmu,       \* DB.mu is locked
    cstate,     \* per driver connection: "unopened", "open" or "closed"
    bad,        \* connections on which a driver call has returned ErrBadConn
    tx,         \* the Tx objects
    stmt,       \* the Stmt objects
    rows,       \* the Rows objects
    th,         \* the frames of the goroutines inside a call
    panicked,   \* "none", or the message of the panic that ended the process
    idle,       \* goroutines that are not inside a call
    calls,      \* calls that may still be started
    faults      \* failures that may still be injected (driver errors, bad arguments)

vars == <<freeConn, closed, dbmu, cstate, bad, tx, stmt, rows, th, panicked, idle, calls, faults>>

dbv == <<freeConn, closed, dbmu>>
connv == <<cstate, bad>>

----------------------------------------------------------------------------
\* Objects and frames.

\* on: the connection DB.begin pinned, kept after tx.ci = nil.  ends: how many
\* calls of tx.txi.Commit() and tx.txi.Rollback() have returned.
NoTx == [st |-> "free", ci |-> 0, txi |-> 0, done |-> FALSE, cimu |-> FALSE, on |-> 0,
         ends |-> 0]

NoStmt == [st |-> "free", tx |-> 0, txci |-> 0, css |-> <<>>, closed |-> FALSE,
           sticky |-> "nil", mu |-> FALSE]

\* released: how many times rs.releaseConn has been called.
NoRows == [st |-> "free", ci |-> 0, tx |-> 0, closeStmt |-> 0, closed |-> FALSE,
           lasterr |-> "nil", released |-> 0]

\* op: the call the user made; fn: the function of the package that runs;
\* ci, err, i, k: its variables; s, x, r: the Stmt, Tx and Rows it works on;
\* failed: the connections that failed with ErrBadConn in this call; late: the
\* call was made on a transaction already done.
NoFrame == [pc |-> "idle", op |-> "none", fn |-> "none", ci |-> 0, err |-> "nil",
            i |-> 0, failed |-> {}, s |-> 0, x |-> 0, r |-> 0, k |-> 0,
            late |-> FALSE, ret |-> "nil"]

Frames == BagToSet(th)

Running == panicked = "none"

\* The goroutines other than one in frame f.
Rest(f) == th (-) SetToBag({f})

\* The goroutines o and one in frame g.
Go(o, g) == th' = o (+) SetToBag({g})

\* The frame of a goroutine whose call returns e: the caller has the result in
\* hand until it goes on (Return).
Finish(f, e) == [NoFrame EXCEPT !.pc = "return", !.op = f.op, !.err = e,
                                !.late = f.late, !.x = f.x, !.s = f.s, !.r = f.r]

\* The outcomes of a driver call: success, or an injected error.
Outs == {"nil"} \cup (IF faults > 0 THEN {"bad", "other"} ELSE {})

\* What si.NumInput() may report, -1 for a driver that does not count its
\* placeholders, and how many arguments Exec and Query may be given.
NumInputs == {-1} \cup 0..MaxArgs

ArgCounts == 0..MaxArgs

\* An arity test that counts the arguments for every driver.
arityError_strict(want, n) == IF n # want THEN "args" ELSE "nil"

\* The test of resultFromStatement and Stmt.Query on n arguments for a
\* statement whose NumInput() is want: the error returned, or nil.
arityError(want, n) == IF want # -1 /\ n # want THEN "args" ELSE "nil"

\* The results the arity test can give.
ArityResults == {arityError(w, n) : w \in NumInputs, n \in ArgCounts}

\* The arguments of Exec and Query: as many as si.NumInput() wants, or not.
Args == {a \in ArityResults : a = "nil" \/ faults > 0}

Charge(out) == faults' = IF out \in {"nil", "skip", "eof"} THEN faults ELSE faults - 1

Marked(out, c) == bad' = IF out = "bad" THEN bad \cup {c} ELSE bad

NewConn == CHOOSE c \in Conns : cstate[c] = "unopened" /\ \A d \in Conns : d < c => cstate[d] # "unopened"

FreeIds(objs) == {id \in DOMAIN objs : objs[id].st = "free"}

NewId(objs) == CHOOSE id \in FreeIds(objs) : \A j \in FreeIds(objs) : id <= j

RECURSIVE IndexOf(_, _, _)
IndexOf(seq, c, from) ==
    IF from > Len(seq) THEN 0
    ELSE IF seq[from] = c THEN from
    ELSE IndexOf(seq, c, from + 1)

Occurrences(seq, c) == Cardinality({j \in 1..Len(seq) : seq[j] = c})

----------------------------------------------------------------------------
\* What the user holds, and what a call may still create.

MakesStmt == {"DB.Prepare", "DB.Query", "Tx.Prepare", "Tx.Stmt", "Tx.Query"}
MakesRows == {"DB.Query", "Tx.Query", "Stmt.Query"}
MakesTx == {"DB.Begin"}

Busy(f) == f.pc # "return"

\* A statement the user holds: DB.Prepare, Tx.Prepare or Tx.Stmt has returned it.
\* The statement DB.Query and Tx.Query prepare is known to their Rows alone.
UserStmt(s) ==
    /\ stmt[s].st = "live"
    /\ \A f \in Frames : ~(Busy(f) /\ f.op \in MakesStmt /\ f.s = s)
    /\ \A r \in RowsIds : rows[r].closeStmt # s

\* Rows are not safe for concurrent use: one goroutine at a time.
UserRows(r) ==
    /\ rows[r].st = "live"
    /\ \A f \in Frames : ~(Busy(f) /\ f.r = r)

UserTx(x) == tx[x].st = "live"

\* The goroutines inside a call of ops that has not made its object yet.
Pending(ops, field) ==
    LET fs == {f \in Frames : Busy(f) /\ f.op \in ops /\ f[field] = 0}
    IN  IF fs = {} THEN 0 ELSE BagCardinality([f \in fs |-> th[f]])

CanMakeStmt == Cardinality(FreeIds(stmt)) > Pending(MakesStmt, "s")
CanMakeRows == Cardinality(FreeIds(rows)) > Pending(MakesRows, "r")
CanMakeTx == Cardinality(FreeIds(tx)) > Pending(MakesTx, "x")

\* A goroutine makes a call.
Call ==
    /\ Running /\ idle > 0 /\ calls > 0
    /\ idle' = idle - 1 /\ calls' = calls - 1

\* A goroutine inside a call takes a step.
Step == Running /\ UNCHANGED <<idle, calls>>

----------------------------------------------------------------------------
\* The pool: DB.conn, DB.connIfFree, DB.putConn.

\* A maxIdleConns that lets one connection fewer stay idle.
maxIdleConns_one == defaultMaxIdleConns - 1

\* A maxIdleConns that lets one more connection stay idle.
maxIdleConns_more == defaultMaxIdleConns + 1

maxIdleConns == defaultMaxIdleConns

\* db.freeConn after connIfFree(wanted): the entry found is overwritten by the
\* last one, and the list is cut by one.
connIfFree(free, wanted) ==
    LET i == IndexOf(free, wanted, 1)
        n == Len(free)
    IN  IF i = 0 THEN free ELSE SubSeq([free EXCEPT ![i] = free[n]], 1, n - 1)

\* A release that never tells putConn of an error.
PutErr_none(f) == "nil"

\* The error putConn receives from the function f.fn that calls it.
PutErr(f) == IF f.fn \in {"prepare", "exec", "begin", "Stmt.Query", "Rows.Close"}
             THEN f.err ELSE "nil"

\* The frame after db.conn() has returned connection c to the function f.fn.
AfterConn(f, c) ==
    [f EXCEPT !.ci = c,
              !.pc = CASE f.fn = "prepare" -> "prepare_Prepare"
                       [] f.fn = "exec" -> "exec_Exec"
                       [] f.fn = "begin" -> "begin_Begin"
                       [] OTHER -> "connStmt_Prepare"]

\* The frame after Stmt.Exec or Stmt.Query has returned error e to its caller:
\* DB.Query and Tx.Query close the statement they prepared, and return e.
StmtOpFailed(f, e) ==
    IF f.op \in {"DB.Query", "Tx.Query"}
    THEN [f EXCEPT !.pc = "Close", !.fn = "Stmt.Close", !.err = e, !.ci = 0, !.k = 0]
    ELSE Finish(f, e)

\* The loops of DB.Prepare, DB.Exec and DB.Begin: the frame after an attempt
\* (DB.prepare, DB.exec, DB.begin) has ended with f.err.
AfterAttempt(f) ==
    IF f.err = "bad" /\ f.i + 1 < maxAttempts
    THEN [f EXCEPT !.pc = "conn", !.i = f.i + 1, !.ci = 0, !.err = "nil",
                   !.failed = f.failed \cup ({f.ci} \ {0})]
    ELSE IF f.err = "nil" /\ f.op = "DB.Query"
    THEN [f EXCEPT !.pc = "connStmt", !.fn = "Stmt.Query", !.ci = 0, !.i = 0,
                   !.failed = {}]
    ELSE Finish(f, f.err)

\* The frame after db.conn() has failed with e in the function f.fn.
ConnFailed(f, e) ==
    IF f.fn \in {"prepare", "exec", "begin"}
    THEN AfterAttempt([f EXCEPT !.err = e, !.ci = 0])
    ELSE StmtOpFailed(f, e)

\* What the call f.op returns when the Rows.Close it is in has returned with
\* f.err: Rows.Next false, Row.Scan its own result, Rows.Close the error.
CloseResult(f) ==
    CASE f.op = "Rows.Next" -> "false"
      [] f.op = "Row.Scan" -> f.ret
      [] OTHER -> f.err

\* The frame after rs.releaseConn has returned in Rows.Close: the statement of
\* DB.Query or Tx.Query is closed, and Close (or the Next that called it) returns.
AfterRelease(f) ==
    IF rows[f.r].closeStmt # 0
    THEN [f EXCEPT !.pc = "Close", !.fn = "Stmt.Close", !.s = rows[f.r].closeStmt,
                   !.ci = 0, !.k = 0]
    ELSE Finish(f, CloseResult(f))

\* The frame after putConn has returned to the function f.fn.
AfterPut(f) ==
    CASE f.fn \in {"prepare", "exec", "begin"} -> AfterAttempt(f)
      [] f.fn = "Stmt.Query" -> StmtOpFailed(f, f.err)
      [] f.fn = "Rows.Close" -> AfterRelease(f)
      [] f.fn = "Stmt.Close" -> [f EXCEPT !.pc = "Close_loop", !.k = f.k + 1, !.ci = 0]
      [] OTHER -> Finish(f, f.err)

\* Tx.close after its putConn: tx.ci = nil, tx.txi = nil.
TxAfterPut(f) ==
    IF f.fn = "Tx.close" THEN [tx EXCEPT ![f.x].ci = 0, ![f.x].txi = 0] ELSE tx

\* A db.conn() that opens a connection whatever the idle list holds.
conn_open(o, f) ==
    /\ ~dbmu
    /\ Go(o, IF closed THEN ConnFailed(f, "dbclosed") ELSE [f EXCEPT !.pc = "Open"])
    /\ UNCHANGED <<freeConn, panicked>>
    /\ UNCHANGED <<closed, dbmu, connv, tx, stmt, rows, faults>>

\* A db.conn() that takes the connection that has been idle longest.
conn_oldest(o, f) ==
    /\ ~dbmu
    /\ IF closed
       THEN /\ Go(o, ConnFailed(f, "dbclosed"))
            /\ UNCHANGED <<freeConn, panicked>>
       ELSE IF Len(freeConn) > 0
       THEN LET c == freeConn[1] IN
            /\ freeConn' = Tail(freeConn)
            /\ IF c = 0
               THEN panicked' = "nil dereference" /\ th' = o
               ELSE Go(o, AfterConn(f, c)) /\ UNCHANGED panicked
       ELSE /\ Go(o, [f EXCEPT !.pc = "Open"])
            /\ UNCHANGED <<freeConn, panicked>>
    /\ UNCHANGED <<closed, dbmu, connv, tx, stmt, rows, faults>>

\* db.conn() by a goroutine in frame f, the others being o: the section under
\* db.mu.  With no idle connection db.driver.Open is called.
conn(o, f) ==
    /\ ~dbmu
    /\ IF closed
       THEN /\ Go(o, ConnFailed(f, "dbclosed"))
            /\ UNCHANGED <<freeConn, panicked>>
       ELSE IF Len(freeConn) > 0
       THEN LET c == freeConn[Len(freeConn)] IN
            /\ freeConn' = SubSeq(freeConn, 1, Len(freeConn) - 1)
            /\ IF c = 0
               THEN panicked' = "nil dereference" /\ th' = o
               ELSE Go(o, AfterConn(f, c)) /\ UNCHANGED panicked
       ELSE /\ Go(o, [f EXCEPT !.pc = "Open"])
            /\ UNCHANGED <<freeConn, panicked>>
    /\ UNCHANGED <<closed, dbmu, connv, tx, stmt, rows, faults>>

\* DB.conn, called again by the loop of DB.Prepare, DB.Exec, DB.Begin or
\* Stmt.connStmt, or by the Stmt.Query of DB.Query.
DB_conn ==
    \E f \in Frames :
        /\ Step /\ f.pc = "conn"
        /\ conn(Rest(f), f)

\* DB.conn: the return of db.driver.Open.
driver_Open ==
    \E f \in Frames, out \in Outs :
        /\ Step /\ f.pc = "Open"
        /\ Charge(out)
        /\ IF out = "nil"
           THEN /\ \E c \in Conns : cstate[c] = "unopened"
                /\ cstate' = [cstate EXCEPT ![NewConn] = "open"]
                /\ Go(Rest(f), AfterConn(f, NewConn))
           ELSE /\ Go(Rest(f), ConnFailed(f, out))
                /\ UNCHANGED cstate
        /\ UNCHANGED <<dbv, bad, tx, stmt, rows, panicked>>

\* DB.putConn up to the end of its section under db.mu.
DB_putConn ==
    \E f \in Frames :
        /\ Step /\ f.pc = "putConn"
        /\ IF PutErr(f) = "bad"
           THEN /\ Go(Rest(f), AfterPut(f)) /\ tx' = TxAfterPut(f)
                /\ UNCHANGED <<freeConn, panicked>>
           ELSE /\ ~dbmu
                /\ IF ~closed /\ Len(freeConn) < maxIdleConns
                   THEN /\ freeConn' = Append(freeConn, f.ci)
                        /\ Go(Rest(f), AfterPut(f)) /\ tx' = TxAfterPut(f)
                        /\ UNCHANGED panicked
                   ELSE IF f.ci = 0
                   THEN /\ panicked' = "nil dereference" /\ th' = Rest(f)
                        /\ UNCHANGED <<freeConn, tx>>
                   ELSE /\ Go(Rest(f), [f EXCEPT !.pc = "putConn_Close"])
                        /\ UNCHANGED <<freeConn, tx, panicked>>
        /\ UNCHANGED <<closed, dbmu, connv, stmt, rows, faults>>

\* DB.putConn: the return of c.Close().
DB_putConn_Close ==
    \E f \in Frames :
        /\ Step /\ f.pc = "putConn_Close"
        /\ cstate' = [cstate EXCEPT ![f.ci] = "closed"]
        /\ Go(Rest(f), AfterPut(f)) /\ tx' = TxAfterPut(f)
        /\ UNCHANGED <<dbv, bad, stmt, rows, panicked, faults>>

----------------------------------------------------------------------------
\* DB.Prepare, DB.Exec, DB.Begin, DB.Query, DB.Close.

DB_Prepare ==
    /\ Call /\ CanMakeStmt
    /\ conn(th, [NoFrame EXCEPT !.pc = "conn", !.op = "DB.Prepare", !.fn = "prepare"])

\* DB.Query: db.Prepare(query), then stmt.Query(args...).
DB_Query ==
    /\ Call /\ CanMakeStmt /\ CanMakeRows
    /\ conn(th, [NoFrame EXCEPT !.pc = "conn", !.op = "DB.Query", !.fn = "prepare"])

\* DB.prepare: the return of ci.Prepare(query); the deferred putConn follows.
DB_prepare_Prepare ==
    \E f \in Frames, out \in Outs :
        /\ Step /\ f.pc = "prepare_Prepare"
        /\ Charge(out) /\ Marked(out, f.ci)
        /\ IF out = "nil"
           THEN LET s == NewId(stmt) IN
                /\ stmt' = [stmt EXCEPT ![s] = [NoStmt EXCEPT !.st = "live", !.css = <<f.ci>>]]
                /\ Go(Rest(f), [f EXCEPT !.pc = "putConn", !.err = "nil", !.s = s])
           ELSE /\ Go(Rest(f), [f EXCEPT !.pc = "putConn", !.err = out])
                /\ UNCHANGED stmt
        /\ UNCHANGED <<dbv, cstate, tx, rows, panicked>>

DB_Exec ==
    /\ Call
    /\ conn(th, [NoFrame EXCEPT !.pc = "conn", !.op = "DB.Exec", !.fn = "exec"])

\* DB.exec: the return of execer.Exec(query, dargs).  The driver may answer
\* ErrSkip; one whose connections are no Execer behaves as one that always does.
DB_exec_Exec ==
    \E f \in Frames, out \in Outs \cup {"skip"} :
        /\ Step /\ f.pc = "exec_Exec"
        /\ Charge(out) /\ Marked(out, f.ci)
        /\ Go(Rest(f), IF out = "skip" THEN [f EXCEPT !.pc = "exec_Prepare"]
                       ELSE [f EXCEPT !.pc = "putConn", !.err = out])
        /\ UNCHANGED <<dbv, cstate, tx, stmt, rows, panicked>>

\* resultFromStatement up to si.Exec in DB.exec and Tx.Exec, a being the result
\* of its arity test: on an error the deferred sti.Close() follows.
resultFromStatement(f, a) ==
    IF a # "nil"
    THEN [f EXCEPT !.pc = IF f.fn = "exec" THEN "exec_siClose" ELSE "txExec_siClose",
                   !.err = a]
    ELSE [f EXCEPT !.pc = IF f.fn = "exec" THEN "exec_siExec" ELSE "txExec_siExec"]

\* DB.exec: the return of ci.Prepare(query), and resultFromStatement up to
\* si.Exec: with the wrong number of arguments it returns an error.
DB_exec_Prepare ==
    \E f \in Frames, out \in Outs, a \in Args :
        /\ Step /\ f.pc = "exec_Prepare"
        /\ out = "nil" \/ a = "nil"
        /\ Charge(IF out = "nil" THEN a ELSE out) /\ Marked(out, f.ci)
        /\ Go(Rest(f), IF out # "nil" THEN [f EXCEPT !.pc = "putConn", !.err = out]
                       ELSE resultFromStatement(f, a))
        /\ UNCHANGED <<dbv, cstate, tx, stmt, rows, panicked>>

\* resultFromStatement in DB.exec: the return of si.Exec(dargs).
DB_exec_siExec ==
    \E f \in Frames, out \in Outs :
        /\ Step /\ f.pc = "exec_siExec"
        /\ Charge(out) /\ Marked(out, f.ci)
        /\ Go(Rest(f), [f EXCEPT !.pc = "exec_siClose", !.err = out])
        /\ UNCHANGED <<dbv, cstate, tx, stmt, rows, panicked>>

\* DB.exec: the return of the deferred sti.Close(); the deferred putConn follows.
DB_exec_siClose ==
    \E f \in Frames :
        /\ Step /\ f.pc = "exec_siClose"
        /\ Go(Rest(f), [f EXCEPT !.pc = "putConn"])
        /\ UNCHANGED <<dbv, connv, tx, stmt, rows, panicked, faults>>

DB_Begin ==
    /\ Call /\ CanMakeTx
    /\ conn(th, [NoFrame EXCEPT !.pc = "conn", !.op = "DB.Begin", !.fn = "begin"])

\* DB.begin: the return of ci.Begin().
DB_begin_Begin ==
    \E f \in Frames, out \in Outs :
        /\ Step /\ f.pc = "begin_Begin"
        /\ Charge(out) /\ Marked(out, f.ci)
        /\ IF out = "nil"
           THEN LET x == NewId(tx) IN
                /\ tx' = [tx EXCEPT ![x] = [NoTx EXCEPT !.st = "live", !.ci = f.ci, !.txi = f.ci,
                                                      !.on = f.ci]]
                /\ Go(Rest(f), Finish([f EXCEPT !.x = x], "nil"))
           ELSE /\ Go(Rest(f), [f EXCEPT !.pc = "putConn", !.err = out])
                /\ UNCHANGED tx
        /\ UNCHANGED <<dbv, cstate, stmt, rows, panicked>>

\* DB.Close: db.mu is locked and c.Close() called for the first idle
\* connection; with none the call is over.
DB_Close ==
    /\ Call /\ ~dbmu
    /\ LET f == [NoFrame EXCEPT !.op = "DB.Close", !.fn = "DB.Close"] IN
       IF Len(freeConn) = 0
       THEN /\ Go(th, Finish(f, "nil"))
            /\ closed' = TRUE
            /\ UNCHANGED <<freeConn, dbmu, panicked>>
       ELSE IF freeConn[1] = 0
       THEN /\ panicked' = "nil dereference"
            /\ UNCHANGED <<freeConn, closed, dbmu, th>>
       ELSE /\ Go(th, [f EXCEPT !.pc = "DBClose_Close", !.k = 1, !.ci = freeConn[1]])
            /\ dbmu' = TRUE
            /\ UNCHANGED <<freeConn, closed, panicked>>
    /\ UNCHANGED <<connv, tx, stmt, rows, faults>>

\* DB.Close: the return of c.Close() for the k-th idle connection, under db.mu;
\* after the last one db.freeConn = nil, db.closed = true, and db.mu is unlocked.
DB_Close_Close ==
    \E f \in Frames :
        /\ Step /\ f.pc = "DBClose_Close"
        /\ cstate' = [cstate EXCEPT ![f.ci] = "closed"]
        /\ IF f.k < Len(freeConn)
           THEN IF freeConn[f.k + 1] = 0
                THEN panicked' = "nil dereference" /\ UNCHANGED <<dbv, th>>
                ELSE /\ Go(Rest(f), [f EXCEPT !.k = f.k + 1, !.ci = freeConn[f.k + 1]])
                     /\ UNCHANGED <<dbv, panicked>>
           ELSE /\ freeConn' = <<>> /\ closed' = TRUE /\ dbmu' = FALSE
                /\ Go(Rest(f), Finish(f, "nil"))
                /\ UNCHANGED panicked
        /\ UNCHANGED <<bad, tx, stmt, rows, faults>>

----------------------------------------------------------------------------
\* Stmt: connStmt, Exec, Query, Close.

\* The connection a driver statement of Stmt s lives on, for a goroutine whose
\* connStmt returned f.ci: the transaction's statement s.txsi was prepared on
\* stmt[s].txci.
StmtConn(f) == IF stmt[f.s].tx # 0 THEN stmt[f.s].txci ELSE f.ci

\* The frame after connStmt has returned a connection and a driver statement
\* to Stmt.Exec or Stmt.Query, a telling whether the arguments are as many as
\* si.NumInput() wants.  If not, resultFromStatement returns the error and the
\* deferred releaseConn(nil) of Stmt.Exec follows; Stmt.Query returns the error.
GotStmt(f, a) ==
    IF a = "nil"
    THEN [f EXCEPT !.pc = IF f.fn = "Stmt.Exec" THEN "Exec_siExec" ELSE "Query_siQuery",
                   !.k = 0]
    ELSE IF f.fn = "Stmt.Query" THEN StmtOpFailed(f, a)
    ELSE IF stmt[f.s].tx # 0 THEN Finish(f, a)
    ELSE [f EXCEPT !.pc = "putConn", !.err = a, !.k = 0]

\* tx.cimu after grabConn in connStmt and what GotStmt does.
CimuAfter(f, a) == ~(a # "nil" /\ f.fn = "Stmt.Exec")

\* Stmt.connStmt up to the loop over s.css: the sticky error, the closed flag
\* under s.mu and, for a statement of a transaction, the tx.done test of grabConn.
connStmt(o, f) ==
    /\ LET s == f.s IN
       IF stmt[s].sticky # "nil"
       THEN Go(o, StmtOpFailed(f, stmt[s].sticky)) /\ UNCHANGED stmt
       ELSE /\ ~stmt[s].mu
            /\ IF stmt[s].closed
               THEN Go(o, StmtOpFailed(f, "stmtclosed")) /\ UNCHANGED stmt
               ELSE IF stmt[s].tx # 0
               THEN /\ Go(o, IF tx[stmt[s].tx].done
                             THEN StmtOpFailed(f, "txdone")
                             ELSE [f EXCEPT !.pc = "grabConn", !.x = stmt[s].tx])
                    /\ UNCHANGED stmt
               ELSE /\ stmt' = [stmt EXCEPT ![s].mu = TRUE]
                    /\ Go(o, [f EXCEPT !.pc = "connStmt_loop", !.k = 1])
    /\ UNCHANGED <<dbv, connv, tx, rows, panicked, faults>>

Stmt_Exec ==
    \E s \in StmtIds :
        /\ Call /\ UserStmt(s)
        /\ connStmt(th, [NoFrame EXCEPT !.pc = "connStmt", !.op = "Stmt.Exec",
                                        !.fn = "Stmt.Exec", !.s = s, !.x = stmt[s].tx,
                                        !.late = stmt[s].tx # 0 /\ tx[stmt[s].tx].done])

Stmt_Query ==
    \E s \in StmtIds :
        /\ Call /\ UserStmt(s) /\ CanMakeRows
        /\ connStmt(th, [NoFrame EXCEPT !.pc = "connStmt", !.op = "Stmt.Query",
                                        !.fn = "Stmt.Query", !.s = s, !.x = stmt[s].tx,
                                        !.late = stmt[s].tx # 0 /\ tx[stmt[s].tx].done])

\* The stmt.Query(args...) of DB.Query and Tx.Query.
Stmt_connStmt ==
    \E f \in Frames :
        /\ Step /\ f.pc = "connStmt"
        /\ connStmt(Rest(f), f)

\* Stmt.connStmt: one turn of the loop over s.css, s.db.connIfFree(v.ci) under
\* s.mu; after the last turn s.mu is unlocked.
Stmt_connStmt_connIfFree ==
    \E f \in Frames, a \in Args :
        /\ Step /\ f.pc = "connStmt_loop" /\ ~dbmu
        /\ LET s == f.s
               c == stmt[s].css[f.k]
           IN  IF IndexOf(freeConn, c, 1) # 0
               THEN /\ freeConn' = connIfFree(freeConn, c)
                    /\ stmt' = [stmt EXCEPT ![s].mu = FALSE]
                    /\ Go(Rest(f), GotStmt([f EXCEPT !.ci = c], a))
                    /\ Charge(a)
               ELSE /\ a = "nil"
                    /\ IF f.k < Len(stmt[s].css)
                       THEN /\ Go(Rest(f), [f EXCEPT !.k = f.k + 1])
                            /\ UNCHANGED stmt
                       ELSE /\ stmt' = [stmt EXCEPT ![s].mu = FALSE]
                            /\ Go(Rest(f), [f EXCEPT !.pc = "conn", !.k = 0, !.i = 0])
                    /\ UNCHANGED <<freeConn, faults>>
        /\ UNCHANGED <<closed, dbmu, connv, tx, rows, panicked>>

\* Stmt.connStmt, no connection of s.css being idle: the return of
\* ci.Prepare(s.query) on the connection db.conn() gave.
Stmt_connStmt_Prepare ==
    \E f \in Frames, out \in Outs :
        /\ Step /\ f.pc = "connStmt_Prepare"
        /\ Charge(out) /\ Marked(out, f.ci)
        /\ Go(Rest(f), IF out = "bad" /\ f.i < maxAttempts
                       THEN [f EXCEPT !.pc = "conn", !.i = f.i + 1, !.ci = 0,
                                      !.failed = f.failed \cup {f.ci}]
                       ELSE IF out # "nil"
                       THEN StmtOpFailed(f, out)
                       ELSE [f EXCEPT !.pc = "connStmt_append"])
        /\ UNCHANGED <<dbv, cstate, tx, stmt, rows, panicked>>

\* Stmt.connStmt: s.css = append(s.css, cs) under s.mu.
Stmt_connStmt_append ==
    \E f \in Frames, a \in Args :
        /\ Step /\ f.pc = "connStmt_append"
        /\ ~stmt[f.s].mu
        /\ stmt' = [stmt EXCEPT ![f.s].css = Append(@, f.ci)]
        /\ Go(Rest(f), GotStmt(f, a))
        /\ Charge(a)
        /\ UNCHANGED <<dbv, connv, tx, rows, panicked>>

\* The releaseConn closure connStmt returned is called, and returns, the other
\* goroutines being o: the statement of a transaction unlocks tx.cimu and the
\* caller goes on as `after`; any other goes into s.db.putConn as g.
releaseConn(o, g, after) ==
    IF stmt[g.s].tx # 0
    THEN /\ tx' = [tx EXCEPT ![stmt[g.s].tx].cimu = FALSE]
         /\ Go(o, after)
    ELSE /\ Go(o, [g EXCEPT !.pc = "putConn"])
         /\ UNCHANGED tx

\* resultFromStatement in Stmt.Exec: the return of si.Exec(dargs); the
\* deferred releaseConn(nil) follows.
Stmt_Exec_siExec ==
    \E f \in Frames, out \in Outs :
        /\ Step /\ f.pc = "Exec_siExec"
        /\ Charge(out) /\ Marked(out, StmtConn(f))
        /\ releaseConn(Rest(f), [f EXCEPT !.err = out], Finish(f, out))
        /\ UNCHANGED <<dbv, cstate, stmt, rows, panicked>>

\* Stmt.Query: the return of si.Query(dargs).  The Rows made own the connection
\* and releaseConn; DB.Query and Tx.Query set their closeStmt.
Stmt_Query_siQuery ==
    \E f \in Frames, out \in Outs :
        /\ Step /\ f.pc = "Query_siQuery"
        /\ Charge(out) /\ Marked(out, StmtConn(f))
        /\ IF out = "nil"
           THEN /\ rows' = [rows EXCEPT ![NewId(rows)] =
                        [NoRows EXCEPT !.st = "live", !.ci = StmtConn(f),
                                       !.tx = stmt[f.s].tx,
                                       !.closeStmt = IF f.op = "Stmt.Query" THEN 0 ELSE f.s]]
                /\ Go(Rest(f), Finish(f, "nil"))
                /\ UNCHANGED tx
           ELSE /\ releaseConn(Rest(f), [f EXCEPT !.err = out], StmtOpFailed(f, out))
                /\ UNCHANGED rows
        /\ UNCHANGED <<dbv, cstate, stmt, panicked>>

\* A Stmt.Close that returns without unlocking s.mu.
CloseReturns_locked(o, f) ==
    /\ Go(o, Finish(f, IF f.op = "Stmt.Close" THEN "nil" ELSE CloseResult(f)))
    /\ stmt' = IF f.op = "Stmt.Close" THEN stmt ELSE [stmt EXCEPT ![f.s] = NoStmt]
    /\ rows' = IF f.op \in {"Rows.Close", "Rows.Next", "Row.Scan"}
               THEN [rows EXCEPT ![f.r].closeStmt = 0] ELSE rows

\* Stmt.Close returns, s.mu unlocked.  A statement DB.Query or Tx.Query made is
\* referenced by nothing from here on.
CloseReturns(o, f) ==
    /\ Go(o, Finish(f, IF f.op = "Stmt.Close" THEN "nil" ELSE CloseResult(f)))
    /\ stmt' = IF f.op = "Stmt.Close" THEN [stmt EXCEPT ![f.s].mu = FALSE]
               ELSE [stmt EXCEPT ![f.s] = NoStmt]
    /\ rows' = IF f.op \in {"Rows.Close", "Rows.Next", "Row.Scan"}
               THEN [rows EXCEPT ![f.r].closeStmt = 0] ELSE rows

\* A Stmt.Close without its test of s.closed.
Close_again(o, f) ==
    /\ LET s == f.s IN
       IF stmt[s].sticky # "nil"
       THEN Go(o, Finish(f, stmt[s].sticky)) /\ UNCHANGED <<stmt, rows>>
       ELSE /\ ~stmt[s].mu
            /\ stmt' = [stmt EXCEPT ![s].closed = TRUE, ![s].mu = TRUE]
            /\ Go(o, [f EXCEPT !.pc = IF stmt[s].tx # 0 THEN "Close_txsi"
                                      ELSE "Close_loop", !.k = 1])
            /\ UNCHANGED rows
    /\ UNCHANGED <<dbv, connv, tx, panicked, faults>>

\* Stmt.Close up to s.closed = true, under s.mu.
Close(o, f) ==
    /\ LET s == f.s IN
       IF stmt[s].sticky # "nil"
       THEN Go(o, Finish(f, stmt[s].sticky)) /\ UNCHANGED <<stmt, rows>>
       ELSE /\ ~stmt[s].mu
            /\ IF stmt[s].closed
               THEN CloseReturns(o, f)
               ELSE /\ stmt' = [stmt EXCEPT ![s].closed = TRUE, ![s].mu = TRUE]
                    /\ Go(o, [f EXCEPT !.pc = IF stmt[s].tx # 0 THEN "Close_txsi"
                                              ELSE "Close_loop", !.k = 1])
                    /\ UNCHANGED rows
    /\ UNCHANGED <<dbv, connv, tx, panicked, faults>>

\* The user's call of Stmt.Close.
Stmt_Close_call ==
    \E s \in StmtIds :
        /\ Call /\ UserStmt(s)
        /\ Close(th, [NoFrame EXCEPT !.pc = "Close", !.op = "Stmt.Close",
                                     !.fn = "Stmt.Close", !.s = s, !.x = stmt[s].tx,
                                     !.late = stmt[s].tx # 0 /\ tx[stmt[s].tx].done])

\* The stmt.Close() of DB.Query, Tx.Query and Rows.Close.
Stmt_Close ==
    \E f \in Frames :
        /\ Step /\ f.pc = "Close"
        /\ Close(Rest(f), f)

\* Stmt.Close: the return of s.txsi.Close().
Stmt_Close_txsi ==
    \E f \in Frames :
        /\ Step /\ f.pc = "Close_txsi"
        /\ CloseReturns(Rest(f), f)
        /\ UNCHANGED <<dbv, connv, tx, panicked, faults>>

\* Stmt.Close: one turn of the loop over s.css, s.db.connIfFree(v.ci); after
\* the last turn Close returns.
Stmt_Close_connIfFree ==
    \E f \in Frames :
        /\ Step /\ f.pc = "Close_loop"
        /\ LET s == f.s IN
           IF f.k > Len(stmt[s].css)
           THEN CloseReturns(Rest(f), f) /\ UNCHANGED freeConn
           ELSE /\ ~dbmu
                /\ IF IndexOf(freeConn, stmt[s].css[f.k], 1) # 0
                   THEN /\ freeConn' = connIfFree(freeConn, stmt[s].css[f.k])
                        /\ Go(Rest(f), [f EXCEPT !.pc = "Close_si", !.ci = stmt[s].css[f.k]])
                   ELSE /\ Go(Rest(f), [f EXCEPT !.k = f.k + 1])
                        /\ UNCHANGED freeConn
                /\ UNCHANGED <<stmt, rows>>
        /\ UNCHANGED <<closed, dbmu, connv, tx, panicked, faults>>

\* Stmt.Close: the return of v.si.Close(); s.db.putConn(ci, nil) follows.
Stmt_Close_siClose ==
    \E f \in Frames :
        /\ Step /\ f.pc = "Close_si"
        /\ Go(Rest(f), [f EXCEPT !.pc = "putConn"])
        /\ UNCHANGED <<dbv, connv, tx, stmt, rows, panicked, faults>>

----------------------------------------------------------------------------
\* Tx: grabConn, releaseConn, close, Commit, Rollback, Prepare, Stmt, Exec, Query.

\* A grabConn without its test of tx.done.
grabConnOr_untested(f, x) == [f EXCEPT !.pc = "grabConn"]

\* tx.grabConn, called at the start of a user call: the frame with tx.done set
\* returns ErrTxDone, any other waits for tx.cimu.
grabConnOr(f, x) ==
    IF tx[x].done THEN Finish(f, "txdone") ELSE [f EXCEPT !.pc = "grabConn"]

\* tx.grabConn: tx.cimu.Lock() returns, and grabConn returns tx.ci.  Tx.Prepare,
\* Tx.Stmt and Tx.Exec call a method of the connection, a nil one panics.
Tx_grabConn ==
    \E f \in Frames, a \in Args :
        /\ Step /\ f.pc = "grabConn"
        /\ ~tx[f.x].cimu
        /\ LET c == tx[f.x].ci IN
           IF f.fn \in {"Stmt.Exec", "Stmt.Query"}
           THEN /\ tx' = [tx EXCEPT ![f.x].cimu = CimuAfter(f, a)]
                /\ Go(Rest(f), GotStmt([f EXCEPT !.ci = c], a))
                /\ Charge(a)
                /\ UNCHANGED panicked
           ELSE /\ a = "nil"
                /\ tx' = [tx EXCEPT ![f.x].cimu = TRUE]
                /\ IF c = 0
                   THEN panicked' = "nil dereference" /\ th' = Rest(f)
                   ELSE /\ Go(Rest(f), [f EXCEPT !.ci = c,
                                            !.pc = IF f.fn = "Tx.Exec" THEN "txExec_Exec"
                                                   ELSE "txPrepare_Prepare"])
                        /\ UNCHANGED panicked
                /\ UNCHANGED faults
        /\ UNCHANGED <<dbv, connv, stmt, rows>>

\* Tx.Commit and Tx.Rollback: the test of tx.done.
Tx_Commit ==
    \E x \in TxIds, op \in {"Tx.Commit", "Tx.Rollback"} :
        /\ Call /\ UserTx(x)
        /\ LET f == [NoFrame EXCEPT !.op = op, !.fn = op, !.x = x, !.late = tx[x].done]
           IN  Go(th, IF tx[x].done THEN Finish(f, "txdone") ELSE [f EXCEPT !.pc = "Commit"])
        /\ UNCHANGED <<dbv, connv, tx, stmt, rows, panicked, faults>>

\* Tx.Commit and Tx.Rollback: tx.txi is read and its Commit or Rollback called.
Tx_Commit_call ==
    \E f \in Frames :
        /\ Step /\ f.pc = "Commit"
        /\ IF tx[f.x].txi = 0
           THEN panicked' = "nil dereference" /\ th' = Rest(f)
           ELSE /\ Go(Rest(f), [f EXCEPT !.pc = "Commit_txi", !.ci = tx[f.x].txi])
                /\ UNCHANGED panicked
        /\ UNCHANGED <<dbv, connv, tx, stmt, rows, faults>>

\* Tx.Commit and Tx.Rollback: the return of tx.txi.Commit() or Rollback(); the
\* deferred tx.close() follows.
Tx_Commit_txi ==
    \E f \in Frames, out \in Outs :
        /\ Step /\ f.pc = "Commit_txi"
        /\ Charge(out) /\ Marked(out, f.ci)
        /\ Go(Rest(f), [f EXCEPT !.pc = "close", !.fn = "Tx.close", !.err = out, !.ci = 0])
        /\ tx' = [tx EXCEPT ![f.x].ends = @ + 1]
        /\ UNCHANGED <<dbv, cstate, stmt, rows, panicked>>

\* Tx.close: the test of tx.done.
Tx_close ==
    \E f \in Frames :
        /\ Step /\ f.pc = "close"
        /\ IF tx[f.x].done
           THEN panicked' = "double close" /\ th' = Rest(f)
           ELSE Go(Rest(f), [f EXCEPT !.pc = "close_done"]) /\ UNCHANGED panicked
        /\ UNCHANGED <<dbv, connv, tx, stmt, rows, faults>>

\* Tx.close: tx.done = true.
Tx_close_done ==
    \E f \in Frames :
        /\ Step /\ f.pc = "close_done"
        /\ tx' = [tx EXCEPT ![f.x].done = TRUE]
        /\ Go(Rest(f), [f EXCEPT !.pc = "close_ci"])
        /\ UNCHANGED <<dbv, connv, stmt, rows, panicked, faults>>

\* Tx.close: tx.ci is read, and tx.db.putConn(tx.ci, nil) called.
Tx_close_ci ==
    \E f \in Frames :
        /\ Step /\ f.pc = "close_ci"
        /\ Go(Rest(f), [f EXCEPT !.pc = "putConn", !.ci = tx[f.x].ci])
        /\ UNCHANGED <<dbv, connv, tx, stmt, rows, panicked, faults>>

\* Tx.Prepare, and the Tx.Prepare of Tx.Query after its test of tx.done.
Tx_Prepare ==
    \E x \in TxIds, op \in {"Tx.Prepare", "Tx.Query"} :
        /\ Call /\ UserTx(x) /\ CanMakeStmt
        /\ op = "Tx.Query" => CanMakeRows
        /\ Go(th, grabConnOr([NoFrame EXCEPT !.op = op, !.fn = "Tx.Prepare", !.x = x,
                                             !.late = tx[x].done], x))
        /\ UNCHANGED <<dbv, connv, tx, stmt, rows, panicked, faults>>

\* Tx.Stmt: with tx.done set the statement returned has the sticky error
\* ErrTxDone.
Tx_Stmt ==
    \E x \in TxIds, s \in StmtIds :
        /\ Call /\ UserTx(x) /\ UserStmt(s) /\ stmt[s].tx = 0 /\ stmt[s].sticky = "nil"
        /\ CanMakeStmt
        /\ LET f == [NoFrame EXCEPT !.op = "Tx.Stmt", !.fn = "Tx.Prepare", !.x = x,
                                    !.late = tx[x].done]
           IN  IF tx[x].done
               THEN /\ Go(th, Finish([f EXCEPT !.s = NewId(stmt)], "nil"))
                    /\ stmt' = [stmt EXCEPT ![NewId(stmt)] =
                                   [NoStmt EXCEPT !.st = "live", !.sticky = "txdone"]]
               ELSE /\ Go(th, [f EXCEPT !.pc = "grabConn"])
                    /\ UNCHANGED stmt
        /\ UNCHANGED <<dbv, connv, tx, rows, panicked, faults>>

\* Tx.Prepare and Tx.Stmt: the return of ci.Prepare(query); the deferred
\* tx.releaseConn() follows.  Tx.Query goes on with stmt.Query.
Tx_Prepare_Prepare ==
    \E f \in Frames, out \in Outs :
        /\ Step /\ f.pc = "txPrepare_Prepare"
        /\ Charge(out) /\ Marked(out, f.ci)
        /\ tx' = [tx EXCEPT ![f.x].cimu = FALSE]
        /\ LET s == NewId(stmt)
               made == [NoStmt EXCEPT !.st = "live", !.tx = f.x, !.txci = f.ci]
           IN  IF f.op = "Tx.Stmt"
               THEN /\ stmt' = [stmt EXCEPT ![s] = [made EXCEPT !.sticky = out]]
                    /\ Go(Rest(f), Finish([f EXCEPT !.s = s], "nil"))
               ELSE IF out # "nil"
               THEN /\ Go(Rest(f), Finish(f, out))
                    /\ UNCHANGED stmt
               ELSE /\ stmt' = [stmt EXCEPT ![s] = made]
                    /\ Go(Rest(f), IF f.op = "Tx.Query"
                                   THEN [f EXCEPT !.pc = "connStmt", !.fn = "Stmt.Query",
                                                  !.s = s, !.ci = 0]
                                   ELSE Finish([f EXCEPT !.s = s], "nil"))
        /\ UNCHANGED <<dbv, cstate, rows, panicked>>

Tx_Exec ==
    \E x \in TxIds :
        /\ Call /\ UserTx(x)
        /\ Go(th, grabConnOr([NoFrame EXCEPT !.op = "Tx.Exec", !.fn = "Tx.Exec", !.x = x,
                                             !.late = tx[x].done], x))
        /\ UNCHANGED <<dbv, connv, tx, stmt, rows, panicked, faults>>

\* The deferred tx.releaseConn() of Tx.Exec, and its return of e.
TxExecReturns(f, e) ==
    /\ tx' = [tx EXCEPT ![f.x].cimu = FALSE]
    /\ Go(Rest(f), Finish(f, e))

\* Tx.Exec: the return of execer.Exec(query, dargs).
Tx_Exec_Exec ==
    \E f \in Frames, out \in Outs \cup {"skip"} :
        /\ Step /\ f.pc = "txExec_Exec"
        /\ Charge(out) /\ Marked(out, f.ci)
        /\ IF out = "skip"
           THEN Go(Rest(f), [f EXCEPT !.pc = "txExec_Prepare"]) /\ UNCHANGED tx
           ELSE TxExecReturns(f, out)
        /\ UNCHANGED <<dbv, cstate, stmt, rows, panicked>>

\* Tx.Exec: the return of ci.Prepare(query), and resultFromStatement up to
\* si.Exec: with the wrong number of arguments it returns an error.
Tx_Exec_Prepare ==
    \E f \in Frames, out \in Outs, a \in Args :
        /\ Step /\ f.pc = "txExec_Prepare"
        /\ out = "nil" \/ a = "nil"
        /\ Charge(IF out = "nil" THEN a ELSE out) /\ Marked(out, f.ci)
        /\ IF out # "nil" THEN TxExecReturns(f, out)
           ELSE /\ Go(Rest(f), resultFromStatement(f, a))
                /\ UNCHANGED tx
        /\ UNCHANGED <<dbv, cstate, stmt, rows, panicked>>

\* resultFromStatement in Tx.Exec: the return of si.Exec(dargs).
Tx_Exec_siExec ==
    \E f \in Frames, out \in Outs :
        /\ Step /\ f.pc = "txExec_siExec"
        /\ Charge(out) /\ Marked(out, f.ci)
        /\ Go(Rest(f), [f EXCEPT !.pc = "txExec_siClose", !.err = out])
        /\ UNCHANGED <<dbv, cstate, tx, stmt, rows, panicked>>

\* Tx.Exec: the return of the deferred sti.Close().
Tx_Exec_siClose ==
    \E f \in Frames :
        /\ Step /\ f.pc = "txExec_siClose"
        /\ TxExecReturns(f, f.err)
        /\ UNCHANGED <<dbv, connv, stmt, rows, panicked, faults>>

----------------------------------------------------------------------------
\* Rows: Next, Close.

\* Rows.Next: on closed Rows, or after an error, false; else rs.rowsi.Next is
\* called.
Rows_Next ==
    \E r \in RowsIds :
        /\ Call /\ UserRows(r)
        /\ LET f == [NoFrame EXCEPT !.op = "Rows.Next", !.fn = "Rows.Next",
                                    !.r = r, !.ci = rows[r].ci]
           IN  Go(th, IF rows[r].closed \/ rows[r].lasterr # "nil"
                      THEN Finish(f, "false")
                      ELSE [f EXCEPT !.pc = "Next_rowsiNext"])
        /\ UNCHANGED <<dbv, connv, tx, stmt, rows, panicked, faults>>

\* Rows.Next: the return of rs.rowsi.Next(rs.lastcols): a row, io.EOF, on which
\* rs.Close() is called, or an error.
Rows_Next_rowsiNext ==
    \E f \in Frames, out \in {"nil", "eof"} \cup (Outs \ {"bad"}) :
        /\ Step /\ f.pc = "Next_rowsiNext"
        /\ Charge(out)
        /\ rows' = [rows EXCEPT ![f.r].lasterr = out,
                                ![f.r].closed = IF out = "eof" THEN TRUE ELSE @]
        /\ Go(Rest(f), IF out = "eof"
                       THEN [f EXCEPT !.pc = "rowsClose_Close", !.fn = "Rows.Close"]
                       ELSE Finish(f, IF out = "nil" THEN "nil" ELSE "false"))
        /\ UNCHANGED <<dbv, connv, tx, stmt, panicked>>

\* A Rows.Err that hands out rs.lasterr as it is.
Rows_Err_raw(rs) == rs.lasterr

\* Rows.Err of the Rows record rs: io.EOF is not an error.
Rows_Err(rs) == IF rs.lasterr = "eof" THEN "nil" ELSE rs.lasterr

\* Rows.Close: on closed Rows nil; else rs.closed = true and rs.rowsi.Close()
\* is called.
Rows_Close ==
    \E r \in RowsIds :
        /\ Call /\ UserRows(r)
        /\ LET f == [NoFrame EXCEPT !.op = "Rows.Close", !.fn = "Rows.Close",
                                    !.r = r, !.ci = rows[r].ci]
           IN  IF rows[r].closed
               THEN Go(th, Finish(f, "nil")) /\ UNCHANGED rows
               ELSE /\ Go(th, [f EXCEPT !.pc = "rowsClose_Close"])
                    /\ rows' = [rows EXCEPT ![r].closed = TRUE]
        /\ UNCHANGED <<dbv, connv, tx, stmt, panicked, faults>>

\* The destinations of a Row.Scan: with a *RawBytes among them, or without.
Dests == {"plain", "rawbytes"}

\* The results of r.rows.Scan(dest...) on a row: nil, or an injected error of
\* convertAssign.
Convs == {"nil"} \cup (IF faults > 0 THEN {"conv"} ELSE {})

\* Row.Scan on the Row that QueryRow made of the Rows r of its Query.  A
\* *RawBytes destination is turned down before the deferred r.rows.Close() is
\* set up.  Otherwise r.rows.Next() is called; when it returns false without a
\* driver call, ErrNoRows is returned through the deferred Close.
Row_Scan ==
    \E r \in RowsIds, d \in Dests :
        /\ Call /\ UserRows(r)
        /\ LET f == [NoFrame EXCEPT !.op = "Row.Scan", !.fn = "Rows.Next",
                                    !.r = r, !.ci = rows[r].ci]
           IN  IF d = "rawbytes"
               THEN Go(th, Finish(f, "rawbytes")) /\ UNCHANGED rows
               ELSE IF rows[r].closed
               THEN Go(th, Finish(f, "norows")) /\ UNCHANGED rows
               ELSE IF rows[r].lasterr # "nil"
               THEN /\ Go(th, [f EXCEPT !.pc = "rowsClose_Close", !.fn = "Rows.Close",
                                         !.ret = "norows"])
                    /\ rows' = [rows EXCEPT ![r].closed = TRUE]
               ELSE Go(th, [f EXCEPT !.pc = "Scan_rowsiNext"]) /\ UNCHANGED rows
        /\ UNCHANGED <<dbv, connv, tx, stmt, panicked, faults>>

\* Row.Scan: the return of rs.rowsi.Next in r.rows.Next().  On a row,
\* r.rows.Scan(dest...) converts it, with result e; on io.EOF Next has called
\* rs.Close(); on an error Next returns false.  The Rows are closed by Next or
\* by the deferred r.rows.Close(), whose rs.rowsi.Close() is called next.
Row_Scan_rowsiNext ==
    \E f \in Frames, out \in {"nil", "eof"} \cup (Outs \ {"bad"}), e \in Convs :
        /\ Step /\ f.pc = "Scan_rowsiNext"
        /\ out # "nil" => e = "nil"
        /\ Charge(IF out = "nil" THEN e ELSE out)
        /\ rows' = [rows EXCEPT ![f.r].lasterr = out, ![f.r].closed = TRUE]
        /\ Go(Rest(f), [f EXCEPT !.pc = "rowsClose_Close", !.fn = "Rows.Close",
                                 !.ret = IF out = "nil" THEN e ELSE "norows"])
        /\ UNCHANGED <<dbv, connv, tx, stmt, panicked>>

\* Rows.Close: the return of rs.rowsi.Close(), and rs.releaseConn(err) up to
\* putConn: Rows of a transaction unlock tx.cimu.
Rows_Close_rowsiClose ==
    \E f \in Frames, out \in Outs :
        /\ Step /\ f.pc = "rowsClose_Close"
        /\ Charge(out) /\ Marked(out, f.ci)
        /\ LET g == [f EXCEPT !.err = out] IN
           IF rows[f.r].tx # 0
           THEN /\ tx' = [tx EXCEPT ![rows[f.r].tx].cimu = FALSE]
                /\ Go(Rest(f), AfterRelease(g))
           ELSE /\ Go(Rest(f), [g EXCEPT !.pc = "putConn"])
                /\ UNCHANGED tx
        /\ rows' = [rows EXCEPT ![f.r].released = @ + 1]
        /\ UNCHANGED <<dbv, cstate, stmt, panicked>>

----------------------------------------------------------------------------
\* The caller goes on after a call has returned.
Return ==
    \E f \in Frames :
        /\ Running /\ f.pc = "return"
        /\ th' = Rest(f)
        /\ idle' = idle + 1
        /\ UNCHANGED <<dbv, connv, tx, stmt, rows, panicked, calls, faults>>

\* The cursors of a run that makes one cursor at most: the other Rows are never
\* made.
OneCursor == [r \in RowsIds |-> IF r = 1 THEN NoRows ELSE [NoRows EXCEPT !.st = "spare"]]

\* The statements of a run that makes two statements at most.
TwoStmts == [s \in StmtIds |-> IF s <= 2 THEN NoStmt ELSE [NoStmt EXCEPT !.st = "spare"]]

\* sql.Open: a DB with no connection.
Init ==
    /\ freeConn = <<>> /\ closed = FALSE /\ dbmu = FALSE
    /\ cstate = [c \in Conns |-> "unopened"]
    /\ bad = {}
    /\ tx = [x \in TxIds |-> NoTx]
    /\ stmt = TwoStmts
    /\ rows = OneCursor
    /\ th = EmptyBag
    /\ panicked = "none"
    /\ idle = NThreads
    /\ calls = MaxCalls
    /\ faults = MaxFaults

Next ==
    \/ DB_conn \/ driver_Open \/ DB_putConn \/ DB_putConn_Close
    \/ DB_Prepare \/ DB_Query \/ DB_prepare_Prepare
    \/ DB_Exec \/ DB_exec_Exec \/ DB_exec_Prepare \/ DB_exec_siExec \/ DB_exec_siClose
    \/ DB_Begin \/ DB_begin_Begin
    \/ DB_Close \/ DB_Close_Close
    \/ Stmt_Exec \/ Stmt_Query \/ Stmt_connStmt \/ Stmt_connStmt_connIfFree
    \/ Stmt_connStmt_Prepare \/ Stmt_connStmt_append
    \/ Stmt_Exec_siExec \/ Stmt_Query_siQuery
    \/ Stmt_Close_call \/ Stmt_Close \/ Stmt_Close_txsi
    \/ Stmt_Close_connIfFree \/ Stmt_Close_siClose
    \/ Tx_grabConn \/ Tx_Commit \/ Tx_Commit_call \/ Tx_Commit_txi
    \/ Tx_close \/ Tx_close_done \/ Tx_close_ci
    \/ Tx_Prepare \/ Tx_Stmt \/ Tx_Prepare_Prepare
    \/ Tx_Exec \/ Tx_Exec_Exec \/ Tx_Exec_Prepare \/ Tx_Exec_siExec \/ Tx_Exec_siClose
    \/ Rows_Next \/ Rows_Next_rowsiNext \/ Rows_Close \/ Rows_Close_rowsiClose
    \/ Row_Scan \/ Row_Scan_rowsiNext
    \/ Return

Spec == Init /\ [][Next]_vars

\* The state that tx := db.Begin() and then stmt := tx.Prepare(query) leave on a
\* fresh handle: transaction 1 on the connection DB.Begin opened, statement 1
\* prepared on it, tx.cimu unlocked again.
InitTx ==
    /\ freeConn = <<>> /\ closed = FALSE /\ dbmu = FALSE
    /\ cstate = [c \in Conns |-> IF c = 1 THEN "open" ELSE "unopened"]
    /\ bad = {}
    /\ tx = [x \in TxIds |-> IF x = 1 THEN [NoTx EXCEPT !.st = "live", !.ci = 1, !.txi = 1, !.on = 1]
                             ELSE NoTx]
    /\ stmt = [s \in StmtIds |-> IF s = 1 THEN [NoStmt EXCEPT !.st = "live", !.tx = 1, !.txci = 1]
                                 ELSE NoStmt]
    /\ rows = OneCursor
    /\ th = EmptyBag
    /\ panicked = "none"
    /\ idle = NThreads
    /\ calls = MaxCalls - 1
    /\ faults = MaxFaults

SpecTx == InitTx /\ [][Next]_vars

\* sql.Open, and one goroutine that makes its calls one after another, one
\* call more than the goroutines of Spec make together.
InitSeq ==
    /\ freeConn = <<>> /\ closed = FALSE /\ dbmu = FALSE
    /\ cstate = [c \in Conns |-> "unopened"]
    /\ bad = {}
    /\ tx = [x \in TxIds |-> NoTx]
    /\ stmt = TwoStmts
    /\ rows = [r \in RowsIds |-> NoRows]
    /\ th = EmptyBag
    /\ panicked = "none"
    /\ idle = 1
    /\ calls = MaxCalls + 1
    /\ faults = MaxFaults

SpecSeq == InitSeq /\ [][Next]_vars


\* The calls on the handle and on the statements of its pool alone: DB.Prepare,
\* DB.Exec, DB.Query, DB.Close, Stmt.Exec, Stmt.Query and Stmt.Close; no
\* transaction is begun, no cursor is read or closed.
MixCalls ==
    \/ DB_Prepare \/ DB_Query \/ DB_Exec \/ DB_Close
    \/ Stmt_Exec \/ Stmt_Query \/ Stmt_Close_call

\* The steps goroutines take inside those calls.
MixSteps ==
    \/ DB_conn \/ driver_Open \/ DB_putConn \/ DB_putConn_Close
    \/ DB_prepare_Prepare
    \/ DB_exec_Exec \/ DB_exec_Prepare \/ DB_exec_siExec \/ DB_exec_siClose
    \/ DB_Close_Close
    \/ Stmt_connStmt \/ Stmt_connStmt_connIfFree
    \/ Stmt_connStmt_Prepare \/ Stmt_connStmt_append
    \/ Stmt_Exec_siExec \/ Stmt_Query_siQuery
    \/ Stmt_Close \/ Stmt_Close_connIfFree \/ Stmt_Close_siClose

NextMix == MixCalls \/ MixSteps \/ Return

\* The goroutines of Spec making those calls on a fresh handle, with a driver
\* whose calls return and a scheduler that runs a goroutine that can take a
\* step: a goroutine inside a call is blocked only by a mutex.
SpecMix == Init /\ [][NextMix]_vars /\ WF_vars(MixSteps)
----------------------------------------------------------------------------
\* What the properties below speak of.

\* The positions at which a call of the driver is in progress.
DriverPcs == {"Open", "putConn_Close", "prepare_Prepare", "exec_Exec", "exec_Prepare",
              "exec_siExec", "exec_siClose", "begin_Begin", "DBClose_Close",
              "connStmt_Prepare", "Exec_siExec", "Query_siQuery", "Close_txsi",
              "Close_si", "Commit_txi", "txPrepare_Prepare", "txExec_Exec",
              "txExec_Prepare", "txExec_siExec", "txExec_siClose", "Next_rowsiNext",
              "Scan_rowsiNext", "rowsClose_Close"}

\* The connection the driver call of frame f works on; 0 for db.driver.Open and
\* for the s.txsi.Close() of Stmt.Close.
ConnOf(f) ==
    CASE f.pc \in {"Open", "Close_txsi"} -> 0
      [] f.pc \in {"Exec_siExec", "Query_siQuery"} -> StmtConn(f)
      [] OTHER -> f.ci

\* How many goroutines have a driver call in progress on connection c, the
\* c.Close() of DB.Close, made under db.mu on the idle list itself, left out.
DriverCalls(c) ==
    LET fs == {f \in Frames : f.pc \in DriverPcs \ {"DBClose_Close"} /\ ConnOf(f) = c}
    IN  IF fs = {} THEN 0 ELSE BagCardinality([f \in fs |-> th[f]])

\* How many goroutines are in Tx.Commit or Tx.Rollback of transaction x past
\* the test of tx.done and the read of tx.txi: in the driver or in tx.close.
Closers(x) ==
    LET fs == {f \in Frames : f.op \in {"Tx.Commit", "Tx.Rollback"} /\ f.x = x
                              /\ f.pc \notin {"Commit", "return"}}
    IN  IF fs = {} THEN 0 ELSE BagCardinality([f \in fs |-> th[f]])

\* The calls on a transaction, or on a statement bound to one, that the
\* transaction's end must turn down.
TxOps == {"Tx.Prepare", "Tx.Exec", "Tx.Query", "Tx.Commit", "Tx.Rollback",
          "Stmt.Exec", "Stmt.Query"}

\* The calls with a retry loop over DB.conn.
RetryOps == {"DB.Prepare", "DB.Exec", "DB.Begin"}

----------------------------------------------------------------------------
\* C1: on one handle, under any interleaving of its operations, the idle list
\* db.freeConn never holds more than maxIdle = 2 connections.
C1_IdleAtMostMaxIdle == Len(freeConn) <= defaultMaxIdleConns

\* C1 at work: the idle list is full, and putConn closes a third connection
\* rather than keep it.
C1_FullListClosesExtra ==
    /\ ~closed /\ Len(freeConn) = defaultMaxIdleConns
    /\ \E f \in Frames : f.pc = "putConn_Close"

\* C2: a connection is never shared.  One in the idle list is there once, is
\* pinned by no running transaction, owned by no open cursor, and no driver
\* call is in progress on it; and no two driver calls are in progress on one
\* connection at the same time.
C2_NeverShared ==
    \A c \in Conns :
        /\ DriverCalls(c) <= 1
        /\ Occurrences(freeConn, c) > 0 =>
              /\ Occurrences(freeConn, c) = 1
              /\ DriverCalls(c) = 0
              /\ \A x \in TxIds : ~(tx[x].st = "live" /\ ~tx[x].done /\ tx[x].ci = c)
              /\ \A r \in RowsIds : ~(rows[r].st = "live" /\ ~rows[r].closed /\ rows[r].ci = c)

\* C3: the connection a transaction is pinned on is not in the idle list while
\* the transaction runs, and is there at most once after its end.
C3_TxConnOutOfIdleList ==
    \A x \in TxIds :
        tx[x].st = "live" =>
            Occurrences(freeConn, tx[x].on) <= (IF tx[x].done THEN 1 ELSE 0)

\* C4: the connection of an open cursor (Rows not closed) is not in the idle
\* list, whatever made the cursor: DB.Query, Stmt.Query or Tx.Query.
C4_CursorConnOutOfIdleList ==
    \A r \in RowsIds :
        rows[r].st = "live" /\ ~rows[r].closed => Occurrences(freeConn, rows[r].ci) = 0

\* C5: a connection on which a driver call has returned driver.ErrBadConn is
\* never in the idle list afterwards.
C5_BadConnFenced == \A c \in bad : Occurrences(freeConn, c) = 0

\* C6: no call of DB.Prepare, DB.Exec, DB.Begin, DB.Query, Stmt.Exec or
\* Stmt.Query returns driver.ErrBadConn.
C6_BadConnNeverReturned ==
    \A f \in Frames :
        f.pc = "return" /\ f.op \in RetryOps \cup {"DB.Query", "Stmt.Exec", "Stmt.Query"}
            => f.err # "bad"

\* C7: DB.Prepare, DB.Exec and DB.Begin make at most 10 attempts, and an attempt
\* after a bad-connection failure works on a connection other than those that
\* failed before in the call.
C7_RetryOnFreshConn ==
    \A f \in Frames :
        f.op \in RetryOps /\ f.pc # "return" =>
            /\ f.i < maxAttempts
            /\ f.ci \notin f.failed

\* C8 as stated: a call on a transaction, or on a statement bound to it, made
\* when the transaction is done, returns ErrTxDone without a call of the driver.
C8_LateCallsGetErrTxDone ==
    \A f \in Frames :
        f.late /\ f.op \in TxOps => f.pc = "return" /\ f.err = "txdone"

\* C8 amended: such a call makes no call of the driver, and returns ErrTxDone,
\* but for Exec and Query on a statement that is closed or has a sticky error,
\* which return "statement is closed" or the sticky error.
C8_LateCallsFail ==
    \A f \in Frames :
        f.late /\ f.op \in TxOps =>
            /\ f.pc = "return"
            /\ \/ f.err = "txdone"
               \/ /\ f.op \in {"Stmt.Exec", "Stmt.Query"}
                  /\ \/ stmt[f.s].sticky # "nil" /\ f.err = stmt[f.s].sticky
                     \/ stmt[f.s].sticky = "nil" /\ stmt[f.s].closed /\ f.err = "stmtclosed"

\* C8 at work: Exec or Query on a statement of a done transaction has returned
\* ErrTxDone.
C8_StmtOfDoneTxTurnedDown ==
    \E f \in Frames :
        /\ f.late /\ f.op \in {"Stmt.Exec", "Stmt.Query"}
        /\ f.pc = "return" /\ f.err = "txdone"

\* C9: of the calls of Commit and Rollback on one transaction, made concurrently
\* or not, one at most goes past the test of tx.done to the driver and to
\* tx.close, and the "double close" panic does not happen.
C9_DoneSetOnce ==
    /\ panicked # "double close"
    /\ \A x \in TxIds : Closers(x) <= 1

\* C10: no two driver calls are in progress at the same time on the connection
\* of one transaction, whatever the mix of calls on the transaction and on the
\* statements bound to it.
C10_TxSerialized ==
    \A x \in TxIds :
        tx[x].st = "live" =>
            LET fs == {f \in Frames : f.x = x /\ f.pc \in DriverPcs /\ ConnOf(f) = tx[x].on}
            IN  fs # {} => BagCardinality([f \in fs |-> th[f]]) <= 1

\* The positions at which a goroutine holds tx.cimu of a transaction: between
\* grabConn and releaseConn in Tx.Prepare, Tx.Stmt, Tx.Exec, Stmt.Exec and
\* Stmt.Query, and in Rows.Close up to rs.releaseConn.
HoldsCimu(f, x) ==
    \/ f.x = x /\ f.pc \in {"txPrepare_Prepare", "txExec_Exec", "txExec_Prepare",
                            "txExec_siExec", "txExec_siClose"}
    \/ f.pc \in {"Exec_siExec", "Query_siQuery"} /\ stmt[f.s].tx = x
    \/ f.pc = "rowsClose_Close" /\ rows[f.r].tx = x

\* C11: tx.cimu is held only on behalf of a call in progress on the
\* transaction, or of an open cursor of the transaction (which owns the
\* connection until it is closed): once the calls have returned, whatever
\* their result, the mutex is free.
C11_CimuReleased ==
    \A x \in TxIds :
        tx[x].st = "live" /\ tx[x].cimu =>
            \/ \E f \in Frames : HoldsCimu(f, x)
            \/ \E r \in RowsIds : rows[r].st = "live" /\ rows[r].tx = x /\ ~rows[r].closed

\* The frames the step has made: of the call just started, or of the goroutine
\* that has moved.
NewFrames == BagToSet(th' (-) th)

\* A step that starts a call of Close on a statement, cursor or handle already
\* closed (or on a statement with a sticky error): the call returns at once,
\* nil or the sticky error, and nothing else changes: no call of the driver is
\* started, rs.releaseConn is not called, the idle list is as it was.
SecondClose ==
    \A g \in NewFrames :
        (/\ calls' < calls
         /\ \/ g.op = "Stmt.Close" /\ (stmt[g.s].closed \/ stmt[g.s].sticky # "nil")
            \/ g.op = "Rows.Close" /\ rows[g.r].closed
            \/ g.op = "DB.Close" /\ closed)
        => /\ g.pc = "return"
           /\ g.err = (IF g.op = "Stmt.Close" THEN stmt[g.s].sticky ELSE "nil")
           /\ freeConn' = freeConn /\ closed' = closed
           /\ UNCHANGED <<cstate, tx, stmt, rows>>

\* C12: Close is idempotent on statements, cursors and handles.
C12_CloseIdempotent == [][SecondClose]_vars

\* C12 at work: two calls of Stmt.Close on one statement have returned nil.
C12_ClosedTwice ==
    \E f \in Frames :
        f.pc = "return" /\ f.op = "Stmt.Close" /\ f.err = "nil" /\ th[f] = 2


\* The frames a step leaves: the goroutine that took the step, as it was.
OldFrames == BagToSet(th (-) th')

\* One step of a closed handle.
ClosedStep ==
    /\ ~closed /\ closed' =>
           \A i \in 1..Len(freeConn) :
               freeConn[i] # 0 => cstate'[freeConn[i]] = "closed"
    /\ closed =>
        /\ closed' /\ freeConn' = <<>>
        /\ \A g \in NewFrames :
            /\ g.pc # "Open"
            /\ calls' < calls /\ g.op \in {"DB.Prepare", "DB.Exec", "DB.Query", "DB.Begin"}
                   => g.pc = "return" /\ g.err = "dbclosed"
        /\ \A f \in OldFrames :
            /\ f.pc = "conn" /\ f.op \in {"Stmt.Exec", "Stmt.Query"}
                   => \E g \in NewFrames : g.pc = "return" /\ g.err = "dbclosed"
            /\ f.pc = "putConn"
                   => \E g \in NewFrames : g.pc = "putConn_Close" /\ g.ci = f.ci

\* C13: once DB.Close has returned the idle list is empty for good, the idle
\* connections have been closed, every later DB.Prepare, DB.Exec, DB.Query,
\* DB.Begin and every Exec or Query of a statement of the pool fails without a
\* driver Open, and a connection released later is closed, not pooled.
C13_ClosedForGood == [][ClosedStep]_vars

\* One step of a Rows.Next: its return, and its call after io.EOF.
NextReturns ==
    \A g \in NewFrames :
        g.op = "Rows.Next" =>
            LET r == g.r IN
            /\ g.pc = "return" =>
                /\ g.err = "nil" <=>
                       /\ \E f \in OldFrames : f.pc = "Next_rowsiNext" /\ f.r = r
                       /\ rows'[r].lasterr = "nil"
                /\ rows'[r].lasterr = "eof" =>
                       /\ g.err = "false"
                       /\ rows'[r].closed /\ rows'[r].released = 1
                       /\ Rows_Err(rows'[r]) = "nil"
            /\ calls' < calls /\ rows[r].lasterr = "eof" =>
                /\ g.pc = "return" /\ g.err = "false"
                /\ rows' = rows /\ UNCHANGED <<dbv, connv, tx, stmt>>

\* C14: Next returns true exactly for the rows the driver's iterator gives; the
\* Next that meets io.EOF returns false with the cursor closed, its connection
\* released exactly once and Err() nil; every later Next returns false at once.
C14_NextUntilEOF == [][NextReturns]_vars

\* C14 at work: the Next that met io.EOF and a later Next have both returned
\* false.
C14_NextAfterEOF ==
    \E f \in Frames :
        /\ f.pc = "return" /\ f.op = "Rows.Next" /\ f.err = "false" /\ th[f] = 2
        /\ rows[f.r].lasterr = "eof" /\ rows[f.r].released = 1

\* C15: whenever Row.Scan returns, whatever its result, the cursor of the Row
\* is closed and its connection has been released.
C15_RowScanCloses ==
    [][\A g \in NewFrames :
           g.op = "Row.Scan" /\ g.pc = "return" =>
               rows'[g.r].closed /\ rows'[g.r].released >= 1]_vars

\* The driver calls si.Exec and si.Query.
ExecPcs == {"exec_siExec", "txExec_siExec", "Exec_siExec", "Query_siQuery"}

\* The frame of a goroutine about to test the number of its arguments, after
\* the test has given a.
Tested(f, a) ==
    IF f.pc \in {"exec_Prepare", "txExec_Prepare"} THEN resultFromStatement(f, a)
    ELSE GotStmt(f, a)

HoldsDbMu(f) == dbmu /\ f.fn = "DB.Close"

\* C17: no goroutine is inside a driver call while it holds db.mu.
C17_NoDriverCallUnderDbMu ==
    \A f \in Frames : f.pc \in DriverPcs => ~HoldsDbMu(f)

\* The connections db.driver.Open has returned so far.
Opened == {c \in Conns : cstate[c] # "unopened"}

\* The first call on the handle was DB.Prepare, it has returned a statement,
\* and every failure of the driver was an ErrBadConn of ci.Prepare.
PreparedAtLast(f) ==
    /\ f.pc = "return" /\ f.op = "DB.Prepare" /\ f.err = "nil"
    /\ calls = MaxCalls - 1 /\ BagCardinality(th) = 1
    /\ MaxFaults - faults = Cardinality(bad)

\* C18: on a fresh handle, when ci.Prepare fails with ErrBadConn k times and
\* then succeeds, DB.Prepare succeeds after k + 1 calls of driver Open, and the
\* idle list holds the good connection and none of the k bad ones.
C18_PrepareRetries ==
    \A f \in Frames :
        PreparedAtLast(f) =>
            /\ Cardinality(Opened) = Cardinality(bad) + 1
            /\ Len(freeConn) = 1 /\ freeConn[1] \notin bad

\* C18 at work: DB.Prepare has succeeded after one bad connection.
C18_RetriedOnce ==
    \E f \in Frames : PreparedAtLast(f) /\ Cardinality(bad) = 1

\* Three calls have been made one after another on a fresh handle, the driver
\* never failed, and the third, a DB.Exec, has returned.  No statement,
\* transaction or cursor was ever made and the handle is open, so the other
\* two calls were DB.Exec too.
ThreeExecs(f) ==
    /\ f.pc = "return" /\ f.op = "DB.Exec" /\ f.err = "nil"
    /\ calls = MaxCalls - 2 /\ faults = MaxFaults /\ ~closed
    /\ \A x \in TxIds : tx[x].st # "live"
    /\ \A s \in StmtIds : stmt[s].st # "live"
    /\ \A r \in RowsIds : rows[r].st # "live"

\* C19 as stated: three DB.Exec one after another make three calls of driver
\* Open and leave one connection in the idle list.
C19_ThreeOpens ==
    \A f \in Frames :
        ThreeExecs(f) => Cardinality(Opened) = 3 /\ Len(freeConn) = 1

\* C19, amended: three DB.Exec one after another make one call of driver Open,
\* the second and third reusing the idle connection, and leave that connection
\* in the idle list.
C19_OneOpen ==
    \A f \in Frames :
        ThreeExecs(f) => Cardinality(Opened) = 1 /\ Len(freeConn) = 1

\* C19 at work: the third DB.Exec has returned.
C19_ThirdExecReturned == \E f \in Frames : ThreeExecs(f)

\* The handle has been used for statement s of DB.Prepare and its two cursors
\* r1 and r2 alone: the driver never failed, the handle is open, and no
\* transaction, no other statement and no other cursor was made.
TwoCursors(s, r1, r2) ==
    /\ r1 # r2 /\ faults = MaxFaults /\ ~closed
    /\ stmt[s].st = "live" /\ stmt[s].tx = 0
    /\ \A t \in StmtIds \ {s} : stmt[t].st # "live"
    /\ \A x \in TxIds : tx[x].st # "live"
    /\ \A r \in RowsIds :
           IF r \in {r1, r2}
           THEN rows[r].st = "live" /\ rows[r].tx = 0 /\ rows[r].closeStmt = 0
           ELSE rows[r].st # "live"

\* The second Stmt.Query of s has just returned, both cursors being open.
BothOpen(s, r1, r2) ==
    /\ TwoCursors(s, r1, r2)
    /\ ~rows[r1].closed /\ ~rows[r2].closed
    /\ \E f \in Frames :
           /\ f.pc = "return" /\ f.op = "Stmt.Query" /\ f.err = "nil" /\ f.s = s
           /\ BagCardinality(th) = 1

\* Both cursors of s have been closed and released, no call is in progress
\* and the two connections of s are all the handle ever opened.
BothClosed(s, r1, r2) ==
    /\ TwoCursors(s, r1, r2)
    /\ rows[r1].closed /\ rows[r2].closed
    /\ rows[r1].released = 1 /\ rows[r2].released = 1
    /\ \A f \in Frames : ~Busy(f)
    /\ Len(stmt[s].css) = 2
    /\ Opened = {stmt[s].css[1], stmt[s].css[2]}
    /\ {rows[r1].ci, rows[r2].ci} = Opened

BadConnPut ==
    \A f \in OldFrames :
        f.pc = "putConn" /\ PutErr(f) = "bad" =>
            /\ freeConn' = freeConn
            /\ \E g \in NewFrames : g.pc = "putConn_Close" /\ g.ci = f.ci

\* C21: putConn called with driver.ErrBadConn leaves the idle list as it is and
\* calls the driver's Close on the connection.
C21_BadConnClosed == [][BadConnPut]_vars

\* One step in which a Tx.Commit or Tx.Rollback that went to the driver
\* returns: the end of the putConn of its tx.close.
TxEnds ==
    \A f \in OldFrames, g \in NewFrames :
        f.fn = "Tx.close" /\ g.pc = "return" =>
            /\ tx'[f.x].ends = 1
            /\ tx'[f.x].done /\ tx'[f.x].ci = 0 /\ tx'[f.x].txi = 0
            /\ f.ci = tx[f.x].on /\ PutErr(f) = "nil"
            /\ g.op = f.op /\ g.err = f.err

\* C22: a Tx.Commit or Tx.Rollback that calls the driver ends the transaction
\* whatever the driver answers: the driver was called once, tx.done is set,
\* the pinned connection went to putConn with a nil error, tx.ci and tx.txi are
\* cleared, and the driver's answer is returned.
C22_TxTerminated == [][TxEnds]_vars

\* db.freeConn without its entry i, the other entries in their order.
WithoutEntry(seq, i) == SubSeq(seq, 1, i - 1) \o SubSeq(seq, i + 1, Len(seq))

\* One step leaves db.freeConn in the order of the putConn calls: putConn
\* appends at the end, connIfFree takes an entry out from between the others,
\* DB.Close empties the list.
PutOrderKept ==
    \/ freeConn' = freeConn
    \/ freeConn' = <<>>
    \/ \E c \in 0..MaxConns : freeConn' = Append(freeConn, c)
    \/ \E i \in 1..Len(freeConn) : freeConn' = WithoutEntry(freeConn, i)

\* One step in which db.conn() takes an idle connection: it is the last one
\* of the list.
ConnTakesLast ==
    (/\ Len(freeConn') < Len(freeConn) /\ ~closed'
     /\ \A f \in OldFrames : f.pc \notin {"connStmt_loop", "Close_loop"})
        => /\ freeConn' = SubSeq(freeConn, 1, Len(freeConn) - 1)
           /\ \A g \in NewFrames : g.ci = freeConn[Len(freeConn)]

\* C23: pool reuse is LIFO: the idle list is always in the order of the
\* putConn calls that filled it, whatever putConn, conn and connIfFree did
\* before, and db.conn() takes its last entry, the connection pooled most
\* recently among those idle.
C23_PoolLifo == [][PutOrderKept /\ ConnTakesLast]_vars

\* A DB.Prepare holds connection 1, which db.conn() took from the idle list
\* <<2, 1>>: the cursor that held it has released it after connection 2 was
\* pooled.
C23_TookLastOfTwo ==
    /\ freeConn = <<2>> /\ rows[1].ci = 1 /\ rows[1].released = 1
    /\ \E f \in Frames : f.pc = "prepare_Prepare" /\ f.ci = 1 /\ f.i = 0

\* One step in which Stmt.Exec or Stmt.Query on a statement of the pool returns
\* an error while it has a connection (held by its frame, or taken from the idle
\* list by connIfFree in this very step): the return is that of putConn.
StmtErrorReleases ==
    \A f \in OldFrames, g \in NewFrames :
        (/\ f.fn \in {"Stmt.Exec", "Stmt.Query"} /\ stmt[f.s].tx = 0
         /\ g.fn # f.fn /\ g.err # "nil"
         /\ (f.ci # 0 \/ freeConn' # freeConn))
            => f.pc \in {"putConn", "putConn_Close"}

\* C24: when Stmt.Exec or Stmt.Query on a pool-bound statement returns an error
\* after a connection was acquired for it, the connection has been handed to
\* putConn.
C24_ErrorReleasesConn == [][StmtErrorReleases]_vars

\* C25: the connections in the css list of a statement of the pool are pairwise
\* distinct: connStmt never appends a pair for a connection already there.
C25_CssDistinct ==
    \A s \in StmtIds :
        stmt[s].st = "live" /\ stmt[s].tx = 0 =>
            \A i, j \in 1..Len(stmt[s].css) : i # j => stmt[s].css[i] # stmt[s].css[j]

\* C26: a connection is in db.freeConn at most once, whatever the putConn calls
\* of DB.prepare, DB.exec, DB.begin, Stmt.Exec, Stmt.Close, Rows.Close and
\* Tx.close and their interleaving.
C26_IdleAtMostOnce == \A c \in Conns : Occurrences(freeConn, c) <= 1

\* The goroutines inside a call that has not returned.
InCall == {f \in Frames : f.pc # "return"}

\* A goroutine waits for db.driver.Open to return a connection beyond the
\* MaxConns connections of the model: a run that comes to this is cut short.
OutOfConns ==
    \E f \in Frames : f.pc = "Open" /\ \A c \in Conns : cstate[c] # "unopened"

\* No goroutine is inside a call and no mutex is held: a call that starts
\* finds db.mu and every s.mu free.
Quiet ==
    /\ InCall = {}
    /\ ~dbmu
    /\ \A s \in StmtIds : ~stmt[s].mu

\* C27: the calls DB.Prepare, DB.Exec, DB.Query, DB.Close, Stmt.Exec,
\* Stmt.Query and Stmt.Close, mixed in any way among the goroutines, cannot
\* block one another for ever on db.mu and s.mu: with a driver whose calls
\* return (in a run that stays within the connections of the model), every
\* call in progress returns and gives its mutexes back, so again and again no
\* goroutine is inside a call and no mutex is held.
C27_CallsComplete == [](~OutOfConns) => []<>Quiet

\* A goroutine in the loop of connStmt holds s.mu and waits for db.mu, which
\* DB.Close holds while it closes an idle connection.
C27_WaitsForDbMuUnderStmtMu ==
    /\ dbmu
    /\ \E f \in Frames : f.pc = "connStmt_loop" /\ stmt[f.s].mu
    /\ \E g \in Frames : g.fn = "DB.Close"
====
